---- MODULE Spec2Model ----
(***************************************************************************)
(* A model of the base model handler (examples/model_service_template/     *)
(* model_handler.py): one ModelHandler instance driven by a serving        *)
(* runtime that calls initialize, preprocess and handle on it.             *)
(*                                                                         *)
(* Python values are encoded uniformly:                                    *)
(*   - a value is a record [kind, items]: None is kind "None", a list of   *)
(*     strings is kind "list" with its elements in items;                  *)
(*   - an optional attribute (self.error, self._context) is a set with at  *)
(*     most one element, the empty set standing for None;                  *)
(*   - an exception is a record [type, arg];                               *)
(*   - a mapping is a set of <<key, value>> pairs.                         *)
(* Assertions are enabled (the interpreter's default, __debug__ = True).   *)
(* The context's collaborators honour their interface: metrics.add_time    *)
(* and request_processor.report_status record the call and return.         *)
(***************************************************************************)
EXTENDS Integers, Sequences, FiniteSets, TLC

\* ------------------------------------------------------------------ bounds
\* Largest batch_size a context's system properties configure.
MaxBatch == 2
\* Longest input batch handed to preprocess or handle.
MaxLen == 3
\* Number of handle calls in one behaviour.
MaxCalls == 2
\* Number of times one manifest Model is serialized.
MaxRenders == 2

\* ------------------------------------------------------------------ values
None == [kind |-> "None", items |-> <<>>]
List(s) == [kind |-> "list", items |-> s]

\* [x] * n : a list of n copies of x (empty when n <= 0).
Repeat(x, n) == List([i \in 1..n |-> x])

\* The raw request batches the runtime sends: lists of length 0..MaxLen.
Requests == [i \in 1..MaxLen |-> "req" \o ToString(i)]
Batches == {List(SubSeq(Requests, 1, n)) : n \in 0..MaxLen}

\* --------------------------------------------------------------- exceptions
NoExc == [type |-> "", arg |-> ""]
KeyError(k) == [type |-> "KeyError", arg |-> k]
AssertionError(m) == [type |-> "AssertionError", arg |-> m]
Exception(m) == [type |-> "Exception", arg |-> m]

\* str(e): the message of an exception; a KeyError renders the repr of its key.
str(e) == IF e.type = "KeyError" THEN "'" \o e.arg \o "'" ELSE e.arg

\* What an overridden stage may raise.
Raisable == {Exception("boom"), KeyError("slot")}

\* ----------------------------------------------------------------- context
\* The context's system properties: with or without a batch_size entry.
HasKey(props, k) == \E p \in props : p[1] = k
Lookup(props, k) == (CHOOSE p \in props : p[1] = k)[2]
Contexts ==
    {[system_properties |-> {}]}
        \cup {[system_properties |-> {<<"batch_size", n>>}] : n \in 1..MaxBatch}

\* Two clock values are enough for consecutive time.time() readings to be
\* equal, increasing or (the wall clock set back) decreasing.  One unit is
\* 0.01 ms, so that a difference is the duration in hundredths of a millisecond.
ClockReadings == 0..1

VARIABLES
    error,          \* self.error
    _context,       \* self._context
    _batch_size,    \* self._batch_size
    initialized,    \* self.initialized
    context,        \* the context object the runtime holds
    metrics,        \* context.metrics: the add_time calls received
    reports,        \* context.request_processor: the report_status calls received
    errorLog,       \* the records logging.error has emitted
    call            \* the latest call on the handler and how it ended

vars == <<error, _context, _batch_size, initialized, context, metrics, reports,
          errorLog, call>>

\* ------------------------------------------------------------ call records
\* op: the method called; ctx: the context initialize was given (a set of at
\* most one); data: the batch preprocess or handle was given; outcome, ret,
\* exc: how the call ended; trace: the stages handle invoked, in order.
Returned(op, ctx, data, trace, v) ==
    [op |-> op, ctx |-> ctx, data |-> data, outcome |-> "returned", ret |-> v,
     exc |-> NoExc, trace |-> trace]
Raised(op, ctx, data, trace, e) ==
    [op |-> op, ctx |-> ctx, data |-> data, outcome |-> "raised", ret |-> None,
     exc |-> e, trace |-> trace]
NoCall ==
    [op |-> "none", ctx |-> {}, data |-> None, outcome |-> "none", ret |-> None,
     exc |-> NoExc, trace |-> <<>>]

\* The result of one stage: a value, or an exception.
Ok(v) == [raised |-> FALSE, value |-> v, exc |-> NoExc]
Raise(e) == [raised |-> TRUE, value |-> None, exc |-> e]

\* -------------------------------------------------------------- the stages
\* preprocess with the size check written as an upper limit.
preprocessAtMost(bs, batch) ==
    IF bs >= Len(batch.items)
    THEN Ok(None)
    ELSE Raise(AssertionError("Invalid input batch size: "
                                \o ToString(Len(batch.items))))

\* ModelHandler.preprocess: the batch must have the configured size.
preprocess(bs, batch) ==
    IF bs = Len(batch.items)
    THEN Ok(None)
    ELSE Raise(AssertionError("Invalid input batch size: "
                                \o ToString(Len(batch.items))))

\* ModelHandler.inference: a no-op.
inference(bs, model_input) == Ok(None)

\* postprocess returning one placeholder whatever the batch size.
postprocessSingle(bs, inference_output) == Ok(Repeat("OK", 1))

\* ModelHandler.postprocess: one placeholder per slot of the configured batch.
postprocess(bs, inference_output) == Ok(Repeat("OK", bs))

Stages == {"preprocess", "inference", "postprocess"}

\* How a handler class implements a stage: the base method, or an override
\* that raises.
Base == [kind |-> "base", exc |-> NoExc]
Raises(e) == [kind |-> "raises", exc |-> e]
Behaviours == {Base} \cup {Raises(e) : e \in Raisable}
\* The handler classes told apart by a call: a stage that follows a raising
\* override is never invoked, so it is left at the base method.
Impls ==
    {impl \in [Stages -> Behaviours] :
        /\ impl["preprocess"].kind = "raises" => impl["inference"] = Base
        /\ impl["inference"].kind = "raises" => impl["postprocess"] = Base}

\* self.<stage>(arg), dispatched to the class's implementation.
Dispatch(stage, how, bs, arg) ==
    IF how.kind = "raises" THEN Raise(how.exc)
    ELSE IF stage = "preprocess" THEN preprocess(bs, arg)
    ELSE IF stage = "inference" THEN inference(bs, arg)
    ELSE postprocess(bs, arg)

\* One invocation of a stage, as recorded in the call's trace.
Invoke(stage, how, bs, arg) ==
    LET r == Dispatch(stage, how, bs, arg)
    IN [stage |-> stage, impl |-> how.kind, arg |-> arg,
        raised |-> r.raised, value |-> r.value, exc |-> r.exc]

\* The stage sequence with inference given the raw batch, preprocess's result
\* dropped.
RunStagesRawToInference(impl, bs, data) ==
    LET p == Invoke("preprocess", impl["preprocess"], bs, data)
        i == Invoke("inference", impl["inference"], bs, data)
        o == Invoke("postprocess", impl["postprocess"], bs, i.value)
    IN IF p.raised THEN <<p>>
       ELSE IF i.raised THEN <<p, i>>
       ELSE <<p, i, o>>

\* The guarded stage sequence of handle (lines 72-76): each stage gets the
\* previous stage's result, and a raise ends the sequence.
RunStages(impl, bs, data) ==
    LET p == Invoke("preprocess", impl["preprocess"], bs, data)
        i == Invoke("inference", impl["inference"], bs, p.value)
        o == Invoke("postprocess", impl["postprocess"], bs, i.value)
    IN IF p.raised THEN <<p>>
       ELSE IF i.raised THEN <<p, i>>
       ELSE <<p, i, o>>

\* round((b - a) * 1000, 2), in hundredths of a millisecond.
Duration(a, b) == b - a

\* The three add_time calls of lines 80-82.
Timings(t1, t2, t3, t4) ==
    << [name |-> "PreprocessTime", value |-> Duration(t1, t2)],
       [name |-> "InferenceTime", value |-> Duration(t2, t3)],
       [name |-> "PostprocessTime", value |-> Duration(t3, t4)] >>

\* A report of another status code.
FailureStatusUnavailable == [code |-> 503, message |-> "Unknown inference error"]

\* The report_status call of line 88.
FailureStatus == [code |-> 500, message |-> "Unknown inference error"]

\* The error text returned once, not once per slot.
ErrorResponseSingle(e, bs) == Repeat(str(e), 1)

\* The value returned from the except branch (line 89).
ErrorResponse(e, bs) == Repeat(str(e), bs)

\* The value returned on success with postprocess's result not assigned.
SuccessResultStale(trace) == trace[Len(trace) - 1].value

\* The value returned on success (lines 76, 84): postprocess's result.
SuccessResult(trace) == trace[Len(trace)].value

\* Number of handle calls made so far: each one reported a failure or added
\* its three timings.
HandleCalls == Len(reports) + (Len(metrics) \div 3)

\* ----------------------------------------------------------------- actions
Init ==
    /\ error = {}
    /\ _context = {}
    /\ _batch_size = 0
    /\ initialized = FALSE
    /\ context \in Contexts
    /\ metrics = <<>>
    /\ reports = <<>>
    /\ errorLog = <<>>
    /\ call = NoCall

\* The runtime builds the context it passes to the handler.
NewContext ==
    /\ \E c \in Contexts : context' = c
    /\ UNCHANGED <<error, _context, _batch_size, initialized, metrics, reports,
                   errorLog, call>>

\* initialize with the flag set before the configuration is read.
initializeFlagFirst ==
    /\ _context' = {context}
    /\ initialized' = TRUE
    /\ IF HasKey(context.system_properties, "batch_size")
       THEN /\ _batch_size' = Lookup(context.system_properties, "batch_size")
            /\ call' = Returned("initialize", {context}, None, <<>>, None)
       ELSE /\ call' = Raised("initialize", {context}, None, <<>>,
                              KeyError("batch_size"))
            /\ UNCHANGED _batch_size
    /\ UNCHANGED <<error, context, metrics, reports, errorLog>>

\* initialize with the flag never set.
initializeNoFlag ==
    /\ _context' = {context}
    /\ IF HasKey(context.system_properties, "batch_size")
       THEN /\ _batch_size' = Lookup(context.system_properties, "batch_size")
            /\ call' = Returned("initialize", {context}, None, <<>>, None)
       ELSE /\ call' = Raised("initialize", {context}, None, <<>>,
                              KeyError("batch_size"))
            /\ UNCHANGED _batch_size
    /\ UNCHANGED <<error, initialized, context, metrics, reports, errorLog>>

\* initialize with the flag cleared on entry and set again on success.
initializeResetsFlag ==
    /\ _context' = {context}
    /\ IF HasKey(context.system_properties, "batch_size")
       THEN /\ _batch_size' = Lookup(context.system_properties, "batch_size")
            /\ initialized' = TRUE
            /\ call' = Returned("initialize", {context}, None, <<>>, None)
       ELSE /\ initialized' = FALSE
            /\ call' = Raised("initialize", {context}, None, <<>>,
                              KeyError("batch_size"))
            /\ UNCHANGED _batch_size
    /\ UNCHANGED <<error, context, metrics, reports, errorLog>>

\* ModelHandler.initialize(context)
initialize ==
    /\ _context' = {context}
    /\ IF HasKey(context.system_properties, "batch_size")
       THEN /\ _batch_size' = Lookup(context.system_properties, "batch_size")
            /\ initialized' = TRUE
            /\ call' = Returned("initialize", {context}, None, <<>>, None)
       ELSE /\ call' = Raised("initialize", {context}, None, <<>>,
                              KeyError("batch_size"))
            /\ UNCHANGED <<_batch_size, initialized>>
    /\ UNCHANGED <<error, context, metrics, reports, errorLog>>

\* ModelHandler.preprocess(batch), called directly.
preprocessCall ==
    \E batch \in Batches :
        LET r == preprocess(_batch_size, batch)
        IN /\ call' = IF r.raised
                      THEN Raised("preprocess", {}, batch, <<>>, r.exc)
                      ELSE Returned("preprocess", {}, batch, <<>>, r.value)
           /\ UNCHANGED <<error, _context, _batch_size, initialized, context,
                          metrics, reports, errorLog>>

\* handle taking the batch size from the batch it is given.
handleAdoptsBatchLength ==
    /\ HandleCalls < MaxCalls
    /\ \E data \in Batches, impl \in Impls :
        LET trace == RunStages(impl, _batch_size, data)
            last == trace[Len(trace)]
        IN /\ IF last.raised
              THEN /\ error' = {}
                   /\ errorLog' = Append(errorLog, str(last.exc))
                   /\ reports' = Append(reports, FailureStatus)
                   /\ call' = Returned("handle", {}, data, trace,
                                       ErrorResponse(last.exc, _batch_size))
                   /\ UNCHANGED metrics
              ELSE /\ error' = {}
                   /\ \E t1, t2, t3, t4 \in ClockReadings :
                        metrics' = metrics \o Timings(t1, t2, t3, t4)
                   /\ call' = Returned("handle", {}, data, trace,
                                       SuccessResult(trace))
                   /\ UNCHANGED <<reports, errorLog>>
           /\ _batch_size' = Len(data.items)
           /\ UNCHANGED <<_context, initialized, context>>

\* handle keeping the caught error in self.error.
handleStoresError ==
    /\ HandleCalls < MaxCalls
    /\ \E data \in Batches, impl \in Impls :
        LET trace == RunStages(impl, _batch_size, data)
            last == trace[Len(trace)]
        IN /\ IF last.raised
              THEN /\ error' = {str(last.exc)}
                   /\ errorLog' = Append(errorLog, str(last.exc))
                   /\ reports' = Append(reports, FailureStatus)
                   /\ call' = Returned("handle", {}, data, trace,
                                       ErrorResponse(last.exc, _batch_size))
                   /\ UNCHANGED metrics
              ELSE /\ error' = {}
                   /\ \E t1, t2, t3, t4 \in ClockReadings :
                        metrics' = metrics \o Timings(t1, t2, t3, t4)
                   /\ call' = Returned("handle", {}, data, trace,
                                       SuccessResult(trace))
                   /\ UNCHANGED <<reports, errorLog>>
           /\ UNCHANGED <<_context, _batch_size, initialized, context>>

\* handle recording each stage's timing as soon as the stage completes.
handleTimesEachStage ==
    /\ HandleCalls < MaxCalls
    /\ \E data \in Batches, impl \in Impls :
        LET trace == RunStages(impl, _batch_size, data)
            last == trace[Len(trace)]
        IN /\ IF last.raised
              THEN /\ error' = {}
                   /\ errorLog' = Append(errorLog, str(last.exc))
                   /\ reports' = Append(reports, FailureStatus)
                   /\ call' = Returned("handle", {}, data, trace,
                                       ErrorResponse(last.exc, _batch_size))
                   /\ \E t1, t2, t3, t4 \in ClockReadings :
                        metrics' = metrics \o SubSeq(Timings(t1, t2, t3, t4), 1,
                                                      Len(trace) - 1)
              ELSE /\ error' = {}
                   /\ \E t1, t2, t3, t4 \in ClockReadings :
                        metrics' = metrics \o Timings(t1, t2, t3, t4)
                   /\ call' = Returned("handle", {}, data, trace,
                                       SuccessResult(trace))
                   /\ UNCHANGED <<reports, errorLog>>
           /\ UNCHANGED <<_context, _batch_size, initialized, context>>

\* handle refusing to run the stages once an error is stored, and storing
\* the error it catches.
handleStickyError ==
    /\ HandleCalls < MaxCalls
    /\ \E data \in Batches, impl \in Impls :
        LET trace == IF error = {} THEN RunStages(impl, _batch_size, data) ELSE <<>>
            failed == error # {} \/ trace[Len(trace)].raised
            text == IF error # {} THEN CHOOSE t \in error : TRUE
                    ELSE str(trace[Len(trace)].exc)
        IN /\ IF failed
              THEN /\ error' = {text}
                   /\ errorLog' = Append(errorLog, text)
                   /\ reports' = Append(reports, FailureStatus)
                   /\ call' = Returned("handle", {}, data, trace,
                                       Repeat(text, _batch_size))
                   /\ UNCHANGED metrics
              ELSE /\ error' = {}
                   /\ \E t1, t2, t3, t4 \in ClockReadings :
                        metrics' = metrics \o Timings(t1, t2, t3, t4)
                   /\ call' = Returned("handle", {}, data, trace,
                                       SuccessResult(trace))
                   /\ UNCHANGED <<reports, errorLog>>
           /\ UNCHANGED <<_context, _batch_size, initialized, context>>

\* handle failing every call made before initialize has succeeded.
handleChecksInitialized ==
    /\ HandleCalls < MaxCalls
    /\ \E data \in Batches, impl \in Impls :
        LET run == RunStages(impl, _batch_size, data)
            refused == [run[1] EXCEPT !.raised = TRUE,
                                      !.exc = Exception("not initialized")]
            trace == IF initialized THEN run ELSE <<refused>>
            last == trace[Len(trace)]
        IN /\ error' = {}
           /\ IF last.raised
              THEN /\ errorLog' = Append(errorLog, str(last.exc))
                   /\ reports' = Append(reports, FailureStatus)
                   /\ call' = Returned("handle", {}, data, trace,
                                       ErrorResponse(last.exc, _batch_size))
                   /\ UNCHANGED metrics
              ELSE /\ \E t1, t2, t3, t4 \in ClockReadings :
                        metrics' = metrics \o Timings(t1, t2, t3, t4)
                   /\ call' = Returned("handle", {}, data, trace,
                                       SuccessResult(trace))
                   /\ UNCHANGED <<reports, errorLog>>
           /\ UNCHANGED <<_context, _batch_size, initialized, context>>

\* ModelHandler.handle(data, context)
handle ==
    /\ HandleCalls < MaxCalls
    /\ \E data \in Batches, impl \in Impls :
        LET trace == RunStages(impl, _batch_size, data)
            last == trace[Len(trace)]
        IN /\ error' = {}
           /\ IF last.raised
              THEN /\ errorLog' = Append(errorLog, str(last.exc))
                   /\ reports' = Append(reports, FailureStatus)
                   /\ call' = Returned("handle", {}, data, trace,
                                       ErrorResponse(last.exc, _batch_size))
                   /\ UNCHANGED metrics
              ELSE /\ \E t1, t2, t3, t4 \in ClockReadings :
                        metrics' = metrics \o Timings(t1, t2, t3, t4)
                   /\ call' = Returned("handle", {}, data, trace,
                                       SuccessResult(trace))
                   /\ UNCHANGED <<reports, errorLog>>
           /\ UNCHANGED <<_context, _batch_size, initialized, context>>

Next == NewContext \/ initialize \/ preprocessCall \/ handle

\* ------------------------------------------------------- the manifest Model
\* (model-archiver/model_archiver/manifest_components/model.py)
\* A constructor argument or attribute value: None, a string, or a mapping
\* given by its entries <<key, JSON text of the value>> in insertion order.
ValNone == [kind |-> "None", text |-> "", entries |-> <<>>]
ValStr(t) == [kind |-> "str", text |-> t, entries |-> <<>>]
ValDict(es) == [kind |-> "dict", text |-> "", entries |-> es]

ModelNames == {ValStr("m1"), ValStr("resnet")}
Handlers == {ValStr("h.py")}
Descriptions == {ValNone, ValStr(""), ValStr("image classifier")}
ModelVersions == {ValNone, ValStr(""), ValStr("1.0")}
Extensions == {ValNone, ValDict(<<>>), ValDict(<< <<"gpu", "true">> >>)}

\* The arguments of Model(model_name, handler, description, model_version,
\* extensions).
ModelArgs ==
    [model_name : ModelNames, handler : Handlers, description : Descriptions,
     model_version : ModelVersions, extensions : Extensions]
NoArgs ==
    [model_name |-> ValNone, handler |-> ValNone, description |-> ValNone,
     model_version |-> ValNone, extensions |-> ValNone]

\* The values an attribute may be reassigned to.
FieldValues(f) ==
    IF f = "model_name" THEN ModelNames
    ELSE IF f = "handler" THEN Handlers
    ELSE IF f = "description" THEN Descriptions
    ELSE IF f = "model_version" THEN ModelVersions
    ELSE Extensions
Fields == {"model_name", "handler", "description", "model_version", "extensions"}

\* model_dict[key] = value on an insertion-ordered dict of new keys.
SetItem(d, k, v) == Append(d, <<k, v>>)

\* __to_dict__ with the optional fields tested for truth, not for None.
to_dictIfTruthy(self) ==
    LET d2 == SetItem(SetItem(<<>>, "modelName", self.model_name),
                      "handler", self.handler)
        d3 == IF self.description.kind # "None" /\ self.description # ValStr("")
              THEN SetItem(d2, "description", self.description) ELSE d2
        d4 == IF self.model_version.kind # "None" /\ self.model_version # ValStr("")
              THEN SetItem(d3, "modelVersion", self.model_version) ELSE d3
    IN IF self.extensions.kind # "None" /\ self.extensions # ValDict(<<>>)
       THEN SetItem(d4, "extensions", self.extensions) ELSE d4

\* __to_dict__ with every field emitted, set or not.
to_dictAlways(self) ==
    << <<"modelName", self.model_name>>, <<"handler", self.handler>>,
       <<"description", self.description>>,
       <<"modelVersion", self.model_version>>,
       <<"extensions", self.extensions>> >>

\* Model.__to_dict__ (lines 21-37)
to_dict(self) ==
    LET d2 == SetItem(SetItem(<<>>, "modelName", self.model_name),
                      "handler", self.handler)
        d3 == IF self.description.kind # "None"
              THEN SetItem(d2, "description", self.description) ELSE d2
        d4 == IF self.model_version.kind # "None"
              THEN SetItem(d3, "modelVersion", self.model_version) ELSE d3
    IN IF self.extensions.kind # "None"
       THEN SetItem(d4, "extensions", self.extensions) ELSE d4

\* Model.__init__ (lines 13-19): the attributes, then the cached projection.
NewModel(a) ==
    LET self == [model_name |-> a.model_name, description |-> a.description,
                 model_version |-> a.model_version, extensions |-> a.extensions,
                 handler |-> a.handler, model_dict |-> <<>>]
    IN [self EXCEPT !.model_dict = to_dict(self)]

\* json.dumps of a value, with the default separators.
RECURSIVE JoinEntries(_)
JoinEntries(es) ==
    IF es = <<>> THEN ""
    ELSE "\"" \o es[1][1] \o "\": " \o es[1][2]
            \o (IF Len(es) > 1 THEN ", " ELSE "") \o JoinEntries(Tail(es))
DumpsValue(v) ==
    IF v.kind = "None" THEN "null"
    ELSE IF v.kind = "str" THEN "\"" \o v.text \o "\""
    ELSE "{" \o JoinEntries(v.entries) \o "}"
\* json.dumps of a dict whose values are such values.
dumps(d) ==
    "{" \o JoinEntries([i \in 1..Len(d) |-> <<d[i][1], DumpsValue(d[i][2])>>])
        \o "}"

\* What a serialization renders when it rebuilds the projection.
RenderedFresh(self) == dumps(to_dict(self))

\* What __str__ and __repr__ render (lines 40, 43): the cached projection.
Rendered(self) == dumps(self.model_dict)

VARIABLES
    model,          \* the Model instance (a set of at most one)
    ctorArgs,       \* the arguments it was constructed with
    rendered        \* the serializations made of it, in order

mvars == <<model, ctorArgs, rendered>>

\* No manifest Model is built while the handler runs.
NoModel == model = {} /\ ctorArgs = NoArgs /\ rendered = <<>>

\* The handler as constructed, no call made on it yet.
HandlerIdle == Init

\* A Model as constructed from any arguments.
ManifestInit ==
    /\ HandlerIdle
    /\ context = [system_properties |-> {}]
    /\ \E a \in ModelArgs :
        /\ ctorArgs = a
        /\ model = {NewModel(a)}
    /\ rendered = <<>>

\* An attribute of the instance is reassigned.
setattr ==
    /\ \E self \in model, f \in Fields :
        \E v \in FieldValues(f) : model' = {[self EXCEPT ![f] = v]}
    /\ UNCHANGED <<ctorArgs, rendered>>
    /\ UNCHANGED vars

\* Model.__str__
str__ ==
    /\ Len(rendered) < MaxRenders
    /\ \E self \in model :
        rendered' = Append(rendered, [via |-> "__str__", text |-> Rendered(self)])
    /\ UNCHANGED <<model, ctorArgs>>
    /\ UNCHANGED vars

\* Model.__repr__
repr__ ==
    /\ Len(rendered) < MaxRenders
    /\ \E self \in model :
        rendered' = Append(rendered, [via |-> "__repr__", text |-> Rendered(self)])
    /\ UNCHANGED <<model, ctorArgs>>
    /\ UNCHANGED vars

ManifestNext == setattr \/ str__ \/ repr__

\* ----------------------------------------------------------- specifications
allvars == <<vars, mvars>>

HandlerInit == Init /\ NoModel
\* Next, each action leaving the manifest Model's variables alone.
HandlerNext ==
    \/ NewContext /\ UNCHANGED mvars
    \/ initialize /\ UNCHANGED mvars
    \/ preprocessCall /\ UNCHANGED mvars
    \/ handle /\ UNCHANGED mvars

\* The handler driven by the runtime.
Spec == HandlerInit /\ [][HandlerNext]_allvars

\* One manifest Model, serialized and reassigned.
ManifestSpec == ManifestInit /\ [][ManifestNext]_allvars

\* ------------------------------------------------------------------ claims
\* The stage that ended the call's trace raised.
StageRaised(c) == c.trace # <<>> /\ c.trace[Len(c.trace)].raised
\* The exception that stage raised.
RaisedExc(c) == c.trace[Len(c.trace)].exc
\* Every element of the list v is the string x.
AllEqual(v, x) == v.kind = "list" /\ \A i \in 1..Len(v.items) : v.items[i] = x
\* This step is a handle call: it leaves its record and logs an error or adds
\* timings.
HandleStep ==
    /\ call'.op = "handle"
    /\ <<metrics, reports, errorLog>>' # <<metrics, reports, errorLog>>
\* This step is an initialize call on the runtime's context.
InitializeStep ==
    /\ call'.op = "initialize"
    /\ call'.ctx = {context}
    /\ context' = context
    /\ _context' = {context}

\* C1: when a stage raises during handle on a handler of batch size N, handle
\* returns (it does not raise) a list of exactly N elements, each the
\* stringified exception.
C1_FailureReturnsNErrors ==
    (call.op = "handle" /\ StageRaised(call)) =>
        /\ call.outcome = "returned"
        /\ Len(call.ret.items) = _batch_size
        /\ AllEqual(call.ret, str(RaisedExc(call)))

C1_Witness ==
    /\ call.op = "handle"
    /\ _batch_size = 2
    /\ Len(call.trace) = 2
    /\ call.trace[2].stage = "inference"
    /\ call.trace[2].raised
    /\ call.ret = List(<<"boom", "boom">>)

\* C2: every handle call on an initialized handler returns exactly one entry
\* per request of its input batch, whatever the batch's length.
C2_OneResponsePerRequest ==
    (call.op = "handle" /\ initialized) =>
        /\ call.outcome = "returned"
        /\ call.ret.kind = "list"
        /\ Len(call.ret.items) = Len(call.data.items)

\* C3: once an initialize call has succeeded, the stored batch size never
\* changes again.
C3_BatchSizeWriteOnce == [][initialized => _batch_size' = _batch_size]_vars

\* C4: a handle call in which a stage raises reports status 500, "Unknown
\* inference error", exactly once; a handle call in which no stage raises
\* reports nothing.
C4_ReportsOncePerFailure ==
    [][HandleStep =>
        IF StageRaised(call')
        THEN reports' = Append(reports, [code |-> 500,
                                         message |-> "Unknown inference error"])
        ELSE reports' = reports]_vars

C4_Witness ==
    /\ call.op = "handle"
    /\ StageRaised(call)
    /\ reports = <<[code |-> 500, message |-> "Unknown inference error"]>>
    /\ Len(metrics) = 3

\* C5: a handle call either completes all three stages and returns exactly
\* postprocess's result, or fails and returns the same error text in every
\* slot; no result mixes stage results with error text.
C5_AllOrNothing ==
    call.op = "handle" =>
        /\ call.outcome = "returned"
        /\ IF StageRaised(call)
           THEN AllEqual(call.ret, str(RaisedExc(call)))
           ELSE /\ Len(call.trace) = 3
                /\ call.trace[3].stage = "postprocess"
                /\ call.ret = call.trace[3].value

C5_Witness ==
    /\ call.op = "handle"
    /\ ~StageRaised(call)
    /\ _batch_size = 2
    /\ call.ret = List(<<"OK", "OK">>)

\* C6: handle invokes preprocess, inference, postprocess in that order, the
\* first on the raw data and each later one on the previous stage's result,
\* and invokes no stage after one that raised.
StageOrder == <<"preprocess", "inference", "postprocess">>
C6_StagesInOrder ==
    call.op = "handle" =>
        /\ Len(call.trace) \in 1..3
        /\ \A i \in 1..Len(call.trace) : call.trace[i].stage = StageOrder[i]
        /\ call.trace[1].arg = call.data
        /\ \A i \in 2..Len(call.trace) :
                /\ ~call.trace[i - 1].raised
                /\ call.trace[i].arg = call.trace[i - 1].value
        /\ Len(call.trace) < 3 => call.trace[Len(call.trace)].raised

C6_Witness ==
    /\ call.op = "handle"
    /\ Len(call.data.items) = 2
    /\ Len(call.trace) = 2
    /\ ~call.trace[1].raised
    /\ call.trace[2].raised

\* C7: initialize on a context without a batch_size entry raises to its
\* caller, and leaves the initialized flag and the batch size as they were
\* (an uninitialized handler stays uninitialized).
C7_MissingBatchSizePropagates ==
    [][(InitializeStep /\ ~HasKey(context.system_properties, "batch_size")) =>
        /\ call'.outcome = "raised"
        /\ call'.exc.type = "KeyError"
        /\ initialized' = initialized
        /\ _batch_size' = _batch_size]_vars

C7_Witness ==
    /\ call.op = "initialize"
    /\ call.outcome = "raised"
    /\ call.ctx = {[system_properties |-> {}]}
    /\ ~initialized
    /\ _batch_size = 0
    /\ _context # {}

\* C8: after initialize returns on a context whose configuration has
\* batch_size = N, the handler is initialized with batch size N.
C8_InitializeStoresBatchSize ==
    \A c \in call.ctx :
        (call.op = "initialize" /\ HasKey(c.system_properties, "batch_size")) =>
            /\ call.outcome = "returned"
            /\ initialized
            /\ _batch_size = Lookup(c.system_properties, "batch_size")

C8_Witness ==
    /\ call.op = "initialize"
    /\ call.outcome = "returned"
    /\ call.ctx = {[system_properties |-> {<<"batch_size", 2>>}]}
    /\ initialized
    /\ _batch_size = 2

\* C9: preprocess called directly raises an assertion error exactly when the
\* batch's length differs from the batch size, and returns otherwise; inside
\* handle the same error is caught and becomes the uniform error response.
C9_BatchSizeCheck ==
    /\ call.op = "preprocess" =>
        IF Len(call.data.items) = _batch_size
        THEN call.outcome = "returned"
        ELSE call.outcome = "raised" /\ call.exc.type = "AssertionError"
    /\ (call.op = "handle" /\ call.trace[1].impl = "base") =>
        IF Len(call.data.items) = _batch_size
        THEN ~call.trace[1].raised
        ELSE /\ call.trace[1].raised
             /\ call.trace[1].exc.type = "AssertionError"
             /\ call.outcome = "returned"
             /\ Len(call.ret.items) = _batch_size
             /\ AllEqual(call.ret, call.trace[1].exc.arg)

C9_Witness ==
    /\ call.op = "preprocess"
    /\ call.outcome = "raised"
    /\ call.exc = AssertionError("Invalid input batch size: 3")
    /\ _batch_size = 2

\* C10: with the three stages at their base behaviour, handle on an
\* initialized handler of batch size N, given a batch of length N, returns N
\* copies of "OK" and adds exactly three timings to the metrics sink, named
\* PreprocessTime, InferenceTime, PostprocessTime.
C10_DefaultStagesReturnOk ==
    [][(/\ HandleStep
        /\ initialized
        /\ Len(call'.data.items) = _batch_size
        /\ \A i \in 1..Len(call'.trace) : call'.trace[i].impl = "base") =>
        /\ call'.outcome = "returned"
        /\ Len(call'.ret.items) = _batch_size
        /\ AllEqual(call'.ret, "OK")
        /\ Len(metrics') = Len(metrics) + 3
        /\ SubSeq(metrics', 1, Len(metrics)) = metrics
        /\ [i \in 1..3 |-> metrics'[Len(metrics) + i].name]
              = <<"PreprocessTime", "InferenceTime", "PostprocessTime">>]_vars

C10_Witness ==
    /\ call.op = "handle"
    /\ initialized
    /\ _batch_size = 2
    /\ call.data = List(<<"req1", "req2">>)
    /\ call.ret = List(<<"OK", "OK">>)
    /\ Len(metrics) = 3

\* C11: in every successful handle call the four clock readings are in
\* order, so each of the three durations given to the metrics sink is
\* non-negative.
C11_DurationsNonNegative ==
    \A i \in 1..Len(metrics) : metrics[i].value >= 0

\* C12: once initialized is true it is never false again, whatever initialize
\* and handle calls follow, failing or not.
C12_InitializedOneWay == [][initialized => initialized']_vars

C12_Witness ==
    /\ call.op = "initialize"
    /\ call.outcome = "raised"
    /\ initialized
    /\ _batch_size = 2

\* C13 (as stated): handle changes nothing but the stored error, the metrics
\* and the status reports; in particular not the context's configuration,
\* the batch size or the initialized flag.
C13_HandleOnlyListedEffects ==
    [][HandleStep =>
        UNCHANGED <<context, _context, _batch_size, initialized, errorLog>>]_vars

\* C13 (amended): handle leaves the context's configuration, the stored
\* context, the batch size and the initialized flag unchanged on both paths;
\* it clears the stored error, and either adds metrics only or, on failure,
\* logs the error and reports one status.
C13_HandleFrame ==
    [][HandleStep =>
        /\ UNCHANGED <<context, _context, _batch_size, initialized>>
        /\ error' = {}
        /\ IF StageRaised(call')
           THEN /\ metrics' = metrics
                /\ Len(reports') = Len(reports) + 1
                /\ errorLog' = Append(errorLog, str(RaisedExc(call')))
           ELSE /\ reports' = reports
                /\ errorLog' = errorLog]_vars

C13_Witness ==
    /\ call.op = "handle"
    /\ StageRaised(call)
    /\ initialized
    /\ _batch_size = 2
    /\ _context # {context}
    /\ errorLog = <<"boom">>

\* C14: after a handle call in which a stage raised, a handle call whose
\* stages do not raise returns postprocess's result and adds its three
\* timings, with no status reported and no error stored.
C14_RecoversAfterFailure ==
    [][(HandleStep /\ Len(reports) > 0 /\ ~StageRaised(call')) =>
        /\ call'.outcome = "returned"
        /\ Len(call'.trace) = 3
        /\ call'.ret = call'.trace[3].value
        /\ Len(call'.ret.items) = _batch_size
        /\ Len(metrics') = Len(metrics) + 3
        /\ reports' = reports
        /\ error' = {}]_vars

C14_Witness ==
    /\ call.op = "handle"
    /\ ~StageRaised(call)
    /\ call.ret = List(<<"OK", "OK">>)
    /\ Len(reports) = 1
    /\ Len(metrics) = 3
    /\ Len(errorLog) = 1

\* C15: the projection of a Model lists modelName, handler, then description,
\* modelVersion, extensions in that order, an optional key being present
\* exactly when its constructor argument is not None, each key with the
\* argument's value.
ExpectedItems(a) ==
    << <<"modelName", a.model_name>>, <<"handler", a.handler>> >>
        \o (IF a.description = ValNone THEN <<>>
            ELSE << <<"description", a.description>> >>)
        \o (IF a.model_version = ValNone THEN <<>>
            ELSE << <<"modelVersion", a.model_version>> >>)
        \o (IF a.extensions = ValNone THEN <<>>
            ELSE << <<"extensions", a.extensions>> >>)
C15_ProjectionOrder ==
    \A self \in model : self.model_dict = ExpectedItems(ctorArgs)

C15_Witness ==
    \E self \in model :
        /\ ctorArgs.description = ValStr("image classifier")
        /\ ctorArgs.model_version = ValNone
        /\ [i \in 1..Len(self.model_dict) |-> self.model_dict[i][1]]
              = <<"modelName", "handler", "description", "extensions">>

\* C16: every serialization of one Model, through __str__ or __repr__,
\* yields the same text, the rendering of the projection built at
\* construction, also when attributes were reassigned in between.
C16_SerializationStable ==
    \A i \in 1..Len(rendered) :
        /\ rendered[i].text = rendered[1].text
        /\ rendered[i].text = dumps(ExpectedItems(ctorArgs))

C16_Witness ==
    \E self \in model :
        /\ Len(rendered) = 2
        /\ rendered[1].via = "__str__"
        /\ rendered[2].via = "__repr__"
        /\ self.description # ctorArgs.description
        /\ self.model_name # ctorArgs.model_name
        /\ rendered[2].text
              = "{\"modelName\": \"m1\", \"handler\": \"h.py\", \"extensions\": {\"gpu\": true}}"

\* C17 (as stated): an optional field of the manifest is never emitted as
\* null or empty: it is absent, or present with a non-empty value.
OptionalKeys == {"description", "modelVersion", "extensions"}
C17_OptionalNeverNullOrEmpty ==
    \A self \in model : \A i \in 1..Len(self.model_dict) :
        self.model_dict[i][1] \in OptionalKeys =>
            self.model_dict[i][2] \notin {ValNone, ValStr(""), ValDict(<<>>)}

\* C17 (amended): an optional field of the manifest is never emitted as
\* null: it is absent, or present with a value that is not None, which may
\* be empty ("" or {}), and is rendered as that value.
C17_OptionalNeverNull ==
    \A self \in model : \A i \in 1..Len(self.model_dict) :
        self.model_dict[i][1] \in OptionalKeys =>
            /\ self.model_dict[i][2].kind # "None"
            /\ DumpsValue(self.model_dict[i][2]) # "null"

C17_Witness ==
    \E self \in model :
        /\ ctorArgs.description = ValStr("")
        /\ ctorArgs.extensions = ValNone
        /\ self.model_dict
              = << <<"modelName", ValStr("m1")>>, <<"handler", ValStr("h.py")>>,
                   <<"description", ValStr("")>> >>

\* C18: the handler's stored error is None in every reachable state, after
\* successful and after failing handle calls alike.
C18_ErrorAlwaysNone == error = {}

C18_Witness ==
    /\ call.op = "handle"
    /\ StageRaised(call)
    /\ Len(reports) = 2
    /\ error = {}

\* C19: a handle call in which a stage raises adds no timing at all; one in
\* which no stage raises adds PreprocessTime, InferenceTime, PostprocessTime,
\* in that order, after its three stages.
C19_TimingsOnlyOnSuccess ==
    [][HandleStep =>
        IF StageRaised(call')
        THEN metrics' = metrics
        ELSE /\ Len(call'.trace) = 3
             /\ Len(metrics') = Len(metrics) + 3
             /\ SubSeq(metrics', 1, Len(metrics)) = metrics
             /\ metrics'[Len(metrics) + 1].name = "PreprocessTime"
             /\ metrics'[Len(metrics) + 2].name = "InferenceTime"
             /\ metrics'[Len(metrics) + 3].name = "PostprocessTime"]_vars

C19_Witness ==
    /\ call.op = "handle"
    /\ Len(call.trace) = 3
    /\ call.trace[3].raised
    /\ metrics = <<>>
    /\ Len(reports) = 1

\* C20: on a handler never initialized (batch size 0) handle with the base
\* stages never raises and returns an empty list for every batch: by the
\* success path, with three timings, for an empty batch, and by the failure
\* path, with exactly one status report, for any other.
C20_UninitializedHandle ==
    [][(/\ HandleStep
        /\ ~initialized
        /\ \A i \in 1..Len(call'.trace) : call'.trace[i].impl = "base") =>
        /\ _batch_size = 0
        /\ call'.outcome = "returned"
        /\ call'.ret = List(<<>>)
        /\ IF call'.data.items = <<>>
           THEN /\ ~StageRaised(call')
                /\ Len(metrics') = Len(metrics) + 3
                /\ reports' = reports
           ELSE /\ StageRaised(call')
                /\ metrics' = metrics
                /\ Len(reports') = Len(reports) + 1]_vars

C20_Witness ==
    /\ call.op = "handle"
    /\ ~initialized
    /\ _batch_size = 0
    /\ call.data = List(<<"req1", "req2">>)
    /\ call.ret = List(<<>>)
    /\ Len(reports) = 1
    /\ Len(metrics) = 3

====
